---- MODULE Spec2Model ----
(***************************************************************************)
(* Model of gdscript_docs_maker/modules/gdscript_objects.py: the           *)
(* conversion of the JSON representation of GDScript classes into objects. *)
(*                                                                         *)
(* A Python str is modelled as a sequence of one-character strings, so     *)
(* that split, strip, lower, find, startswith, replace and join are        *)
(* computed character by character as Python computes them.  A Python dict *)
(* and a dataclass instance are modelled as functions from their keys      *)
(* (attribute names) to values, so `key in d` is `key \in DOMAIN d`.       *)
(* The raw records are distinct dict objects, as a JSON loader builds them: *)
(* an assignment into one record changes that record only.                 *)
(***************************************************************************)
EXTENDS Integers, Sequences, FiniteSets, TLC

VARIABLES
    pc,           \* position of the run: "start", then "built" / "done"
    input,        \* the raw records as they were handed to the program
    data,         \* the same raw records as the program leaves them (dicts are mutable)
    classes,      \* the GDScriptClasses collection built by from_dict_list
    groups,       \* <<result>> of the last get_grouped_by_category, <<>> before any call
    class_index,  \* <<cached get_class_index>>, <<>> before the first call
    description,  \* argument handed to extract_metadata
    extracted,    \* <<its result>>, a pair (description_trimmed, metadata); <<>> before
    func          \* <<the Function built by Function.from_dict>>; <<>> before

vars == <<pc, input, data, classes, groups, class_index, description, extracted, func>>

-----------------------------------------------------------------------------
(* Python str primitives *)

NL == "\n"

\* characters removed by str.strip() without argument (those the model uses)
Whitespace == {" ", "\t", "\r", NL}

UpperChars == <<"A","B","C","D","E","F","G","H","I","J","K","L","M",
                "N","O","P","Q","R","S","T","U","V","W","X","Y","Z">>
LowerChars == <<"a","b","c","d","e","f","g","h","i","j","k","l","m",
                "n","o","p","q","r","s","t","u","v","w","x","y","z">>

lower_char(c) ==
    IF \E i \in DOMAIN UpperChars : UpperChars[i] = c
    THEN LowerChars[CHOOSE i \in DOMAIN UpperChars : UpperChars[i] = c]
    ELSE c

\* str.lower()
lower(s) == [i \in 1..Len(s) |-> lower_char(s[i])]

RECURSIVE lstrip_chars(_, _)
lstrip_chars(s, chars) ==
    IF s # <<>> /\ Head(s) \in chars THEN lstrip_chars(Tail(s), chars) ELSE s

RECURSIVE rstrip_chars(_, _)
rstrip_chars(s, chars) ==
    IF s # <<>> /\ s[Len(s)] \in chars
    THEN rstrip_chars(SubSeq(s, 1, Len(s) - 1), chars)
    ELSE s

\* str.strip(chars)
strip_chars(s, chars) == rstrip_chars(lstrip_chars(s, chars), chars)

\* str.strip()
strip(s) == strip_chars(s, Whitespace)

\* str.startswith(prefix)
startswith(s, prefix) ==
    Len(s) >= Len(prefix) /\ SubSeq(s, 1, Len(prefix)) = prefix

\* str.find(sub): 0-based index of the first occurrence, -1 when there is none
find(s, sub) ==
    LET hits == {i \in 1..(Len(s) - Len(sub) + 1) : SubSeq(s, i, i + Len(sub) - 1) = sub}
    IN  IF hits = {} THEN -1
        ELSE (CHOOSE i \in hits : \A j \in hits : i <= j) - 1

\* the slice s[start:], start a 0-based index
slice_from(s, start) == SubSeq(s, start + 1, Len(s))

\* str.split(sep): a string without sep (the empty one too) gives one segment
RECURSIVE split(_, _)
split(s, sep) ==
    LET at == find(s, sep)
    IN  IF at = -1 THEN <<s>>
        ELSE <<SubSeq(s, 1, at)>> \o split(slice_from(s, at + Len(sep)), sep)

\* sep.join(parts)
RECURSIVE join(_, _)
join(sep, parts) ==
    IF parts = <<>> THEN <<>>
    ELSE IF Len(parts) = 1 THEN parts[1]
    ELSE parts[1] \o sep \o join(sep, Tail(parts))

\* str.replace(old, new, 1): only the first occurrence is replaced
replace_first(s, old, new) ==
    LET at == find(s, old)
    IN  IF at = -1 THEN s
        ELSE SubSeq(s, 1, at) \o new \o slice_from(s, at + Len(old))

\* `x in list`
contains(list, x) == \E i \in DOMAIN list : list[i] = x

\* dict assignment d[key] = value
SetItem(d, key, value) ==
    [k \in DOMAIN d \cup {key} |-> IF k = key THEN value ELSE d[k]]

-----------------------------------------------------------------------------
(* Module constants *)

BUILTIN_VIRTUAL_CALLBACKS ==
    { <<"_", "p", "r", "o", "c", "e", "s", "s">>,
      <<"_", "p", "h", "y", "s", "i", "c", "s", "_", "p", "r", "o", "c", "e", "s", "s">>,
      <<"_", "i", "n", "p", "u", "t">>,
      <<"_", "u", "n", "h", "a", "n", "d", "l", "e", "d", "_", "i", "n", "p", "u", "t">>,
      <<"_", "g", "u", "i", "_", "i", "n", "p", "u", "t">>,
      <<"_", "d", "r", "a", "w">>,
      <<"_", "g", "e", "t", "_", "c", "o", "n", "f", "i", "g", "u", "r", "a", "t", "i", "o", "n",
        "_", "w", "a", "r", "n", "i", "n", "g">>,
      <<"_", "r", "e", "a", "d", "y">>,
      <<"_", "e", "n", "t", "e", "r", "_", "t", "r", "e", "e">>,
      <<"_", "e", "x", "i", "t", "_", "t", "r", "e", "e">>,
      <<"_", "g", "e", "t">>,
      <<"_", "g", "e", "t", "_", "p", "r", "o", "p", "e", "r", "t", "y", "_", "l", "i", "s", "t">>,
      <<"_", "n", "o", "t", "i", "f", "i", "c", "a", "t", "i", "o", "n">>,
      <<"_", "s", "e", "t">>,
      <<"_", "t", "o", "_", "s", "t", "r", "i", "n", "g">>,
      <<"_", "c", "l", "i", "p", "s", "_", "i", "n", "p", "u", "t">>,
      <<"_", "g", "e", "t", "_", "m", "i", "n", "i", "m", "u", "m", "_", "s", "i", "z", "e">>,
      <<"_", "g", "u", "i", "_", "i", "n", "p", "u", "t">>,
      <<"_", "m", "a", "k", "e", "_", "c", "u", "s", "t", "o", "m", "_", "t", "o", "o", "l", "t",
        "i", "p">> }

TYPE_CONSTRUCTOR == <<"_", "i", "n", "i", "t">>

\* string literals of the source
TagsPrefix     == <<"t", "a", "g", "s", ":">>
CategoryPrefix == <<"c", "a", "t", "e", "g", "o", "r", "y", ":">>
VirtualTag     == <<"v", "i", "r", "t", "u", "a", "l">>
PrivatePrefix  == <<"_">>
ArrowNull      == <<"-", ">", " ", "n", "u", "l", "l">>
ArrowVoid      == <<"-", ">", " ", "v", "o", "i", "d">>
Null           == <<"n", "u", "l", "l">>
Void           == <<"v", "o", "i", "d">>

-----------------------------------------------------------------------------
(* Metadata and extract_metadata *)

Metadata(tags, category) == [tags |-> tags, category |-> category]

\* the test of line 58 on one line of the description
is_tags_line(line) == startswith(lower(strip(line)), TagsPrefix)

\* the test of line 62; it is reached only when line 58 failed
is_category_line(line) == startswith(lower(strip(line)), CategoryPrefix)

\* the last index of sub in s (str.rfind), 0-based, -1 when there is none
rfind(s, sub) ==
    LET hits == {i \in 1..(Len(s) - Len(sub) + 1) : SubSeq(s, i, i + Len(sub) - 1) = sub}
    IN  IF hits = {} THEN -1
        ELSE (CHOOSE i \in hits : \A j \in hits : i >= j) - 1

\* parse_tags cutting the line after its last colon instead of its first
parse_tags_last_colon(line) ==
    LET parts == split(slice_from(line, rfind(line, <<":">>) + 1), <<",">>)
    IN  [i \in 1..Len(parts) |-> strip(parts[i])]

\* lines 59-60: the tags of one `tags:` line
parse_tags(line) ==
    LET parts == split(slice_from(line, find(line, <<":">>) + 1), <<",">>)
    IN  [i \in 1..Len(parts) |-> strip(parts[i])]

\* line 63: the category of one `category:` line
parse_category(line) == strip(slice_from(line, find(line, <<":">>) + 1))

\* the for loop of lines 55-66, from line i on
RECURSIVE extract_loop(_, _, _, _, _)
extract_loop(lines, i, tags, category, description_trimmed) ==
    IF i > Len(lines)
    THEN <<join(<<NL>>, description_trimmed), Metadata(tags, category)>>
    ELSE IF is_tags_line(lines[i])
         THEN extract_loop(lines, i + 1, parse_tags(lines[i]), category,
                           description_trimmed)
    ELSE IF is_category_line(lines[i])
         THEN extract_loop(lines, i + 1, tags, parse_category(lines[i]),
                           description_trimmed)
    ELSE extract_loop(lines, i + 1, tags, category,
                      Append(description_trimmed, strip(lines[i])))

extract_metadata(desc) == extract_loop(split(desc, <<NL>>), 1, <<>>, <<>>, <<>>)

-----------------------------------------------------------------------------
(* Element, Signal, Argument, Function, Enumeration, Member *)

\* Element.__post_init__: the description without its directive lines and
\* without leading and trailing newlines, and the metadata
Element_post_init(desc) ==
    LET r == extract_metadata(desc)
    IN  [description |-> strip_chars(r[1], {NL}), metadata |-> r[2]]

Signal_from_dict(d) ==
    LET e == Element_post_init(d.description)
    IN  [signature |-> d.signature, name |-> d.name, description |-> e.description,
         metadata |-> e.metadata, arguments |-> d.arguments]

Argument(name, type) == [name |-> name, type |-> type]

\* Function._get_arguments
Function_get_arguments(d) == [i \in 1..Len(d) |-> Argument(d[i].name, d[i].type)]

\* Function whose __post_init__ rewrites `null` in the signature, not `-> null`
Function_rewrite_any_null(signature, name, desc, kind, return_type, arguments, rpc_mode) ==
    LET e == Element_post_init(desc)
    IN  [signature   |-> replace_first(signature, Null, Void),
         name        |-> name,
         description |-> e.description,
         metadata    |-> e.metadata,
         kind        |-> kind,
         return_type |-> replace_first(return_type, Null, Void),
         arguments   |-> arguments,
         rpc_mode    |-> rpc_mode]

\* the dataclass constructor of Function followed by Function.__post_init__
Function(signature, name, desc, kind, return_type, arguments, rpc_mode) ==
    LET e == Element_post_init(desc)
    IN  [signature   |-> replace_first(signature, ArrowNull, ArrowVoid),
         name        |-> name,
         description |-> e.description,
         metadata    |-> e.metadata,
         kind        |-> kind,
         return_type |-> replace_first(return_type, Null, Void),
         arguments   |-> arguments,
         rpc_mode    |-> rpc_mode]

\* Function_kind without its elif branch
Function_kind_no_virtual(d) == IF d.is_static THEN "STATIC" ELSE "METHOD"

\* lines 143-147 of Function.from_dict
Function_kind(d) ==
    IF d.is_static THEN "STATIC"
    ELSE IF d.is_virtual THEN "VIRTUAL"
    ELSE "METHOD"

Function_from_dict(d) ==
    Function(d.signature, d.name, d.description, Function_kind(d), d.return_type,
             Function_get_arguments(d.arguments),
             IF "rpc_mode" \in DOMAIN d THEN d.rpc_mode ELSE 0)

Enumeration_from_dict(d) ==
    LET e == Element_post_init(d.description)
    IN  [signature |-> d.signature, name |-> d.name, description |-> e.description,
         metadata |-> e.metadata, values |-> d.value]

Member_from_dict(d) ==
    LET e == Element_post_init(d.description)
    IN  [signature |-> d.signature, name |-> d.name, description |-> e.description,
         metadata |-> e.metadata, type |-> d.data_type,
         default_value |-> d.default_value, is_exported |-> d.export,
         setter |-> d.setter, getter |-> d.getter]

-----------------------------------------------------------------------------
(* _get_signals, _get_functions, _get_members *)

_get_signals(d) == [i \in 1..Len(d) |-> Signal_from_dict(d[i])]

\* is_builtin_callback with `_ready` missing from the list
is_builtin_callback_without_ready(name) ==
    name \in BUILTIN_VIRTUAL_CALLBACKS \ {<<"_", "r", "e", "a", "d", "y">>}

\* line 304
is_builtin_callback(name) == name \in BUILTIN_VIRTUAL_CALLBACKS

\* line 306: an empty argument list is falsy
is_default_constructor(entry) == entry.name = TYPE_CONSTRUCTOR /\ entry.arguments = <<>>

\* line 311
is_virtual_entry(metadata, is_static) == contains(metadata.tags, VirtualTag) /\ ~is_static

\* is_private_entry that ignores the virtual tag
is_private_entry_any(name, is_virtual) == startswith(name, PrivatePrefix)

\* line 312
is_private_entry(name, is_virtual) == startswith(name, PrivatePrefix) /\ ~is_virtual

\* lines 316-318: function_data is the very dict `entry`, which gains two keys
mark_entry(entry, is_virtual, is_static) ==
    SetItem(SetItem(entry, "is_virtual", is_virtual), "is_static", is_static)

\* the for loop of lines 302-320, from entry i on; d is the list as mutated so far
RECURSIVE get_functions_loop(_, _, _, _)
get_functions_loop(d, is_static, i, functions) ==
    IF i > Len(d) THEN [functions |-> functions, data |-> d]
    ELSE IF is_builtin_callback(d[i].name)
         THEN get_functions_loop(d, is_static, i + 1, functions)
    ELSE IF is_default_constructor(d[i])
         THEN get_functions_loop(d, is_static, i + 1, functions)
    ELSE LET metadata   == extract_metadata(d[i].description)[2]
             is_virtual == is_virtual_entry(metadata, is_static)
             is_private == is_private_entry(d[i].name, is_virtual)
             function_data == mark_entry(d[i], is_virtual, is_static)
         IN  IF is_private
             THEN get_functions_loop(d, is_static, i + 1, functions)
             ELSE get_functions_loop([d EXCEPT ![i] = function_data], is_static, i + 1,
                                     Append(functions, Function_from_dict(function_data)))

\* the returned list, and the argument list as the call leaves it
_get_functions(d, is_static) == get_functions_loop(d, is_static, 1, <<>>)

is_public_member(entry) == ~startswith(entry.name, PrivatePrefix)

_get_members(d) ==
    LET kept == SelectSeq(d, is_public_member)
    IN  [i \in 1..Len(kept) |-> Member_from_dict(kept[i])]

-----------------------------------------------------------------------------
(* GDScriptClass *)

Dictionary == <<"D", "i", "c", "t", "i", "o", "n", "a", "r", "y">>

is_enumeration(entry) == entry.data_type = Dictionary

\* the dataclass constructor of GDScriptClass followed by __post_init__; the
\* attributes of the instance (its __dict__) are the keys of the result
GDScriptClass(name, extends, desc, path, functions, members, signals, enums) ==
    LET r == extract_metadata(desc)
    IN  [name        |-> name,
         extends     |-> extends,
         description |-> strip_chars(r[1], {NL, " "}),
         path        |-> path,
         functions   |-> functions,
         members     |-> members,
         signals     |-> signals,
         enums       |-> enums,
         metadata    |-> r[2]]

\* GDScriptClass.from_dict: the object, and the raw record as the call leaves it
GDScriptClass_from_dict(d) ==
    LET instance == _get_functions(d.methods, FALSE)
        static   == _get_functions(d.static_functions, TRUE)
        consts   == SelectSeq(d.constants, is_enumeration)
    IN  [object |-> GDScriptClass(d.name, d.extends_class, d.description, d.path,
                                  instance.functions \o static.functions,
                                  _get_members(d.members),
                                  _get_signals(d.signals),
                                  [i \in 1..Len(consts) |-> Enumeration_from_dict(consts[i])]),
         data   |-> [d EXCEPT !.methods = instance.data,
                              !.static_functions = static.data]]

\* get_symbols that counts the enumerations too
get_symbols_with_enums(c) ==
    LET elements == c.functions \o c.members \o c.signals \o c.enums
    IN  {elements[i].name : i \in DOMAIN elements}

\* GDScriptClass.get_symbols
get_symbols(c) ==
    LET elements == c.functions \o c.members \o c.signals
    IN  {elements[i].name : i \in DOMAIN elements}

-----------------------------------------------------------------------------
(* GDScriptClasses *)

\* code points of the characters, for the comparison of str values: 32..95,
\* then 97..126
AsciiLow  == <<" ", "!", "\"", "#", "$", "%", "&", "'", "(", ")", "*", "+", ",", "-", ".", "/",
               "0", "1", "2", "3", "4", "5", "6", "7", "8", "9", ":", ";", "<", "=", ">", "?",
               "@", "A", "B", "C", "D", "E", "F", "G", "H", "I", "J", "K", "L", "M", "N", "O",
               "P", "Q", "R", "S", "T", "U", "V", "W", "X", "Y", "Z", "[", "\\", "]", "^", "_">>
AsciiHigh == <<"a", "b", "c", "d", "e", "f", "g", "h", "i", "j", "k", "l", "m", "n", "o",
               "p", "q", "r", "s", "t", "u", "v", "w", "x", "y", "z", "{", "|", "}", "~">>

ord(c) ==
    IF c = "\t" THEN 9
    ELSE IF c = NL THEN 10
    ELSE IF c = "\r" THEN 13
    ELSE IF \E i \in DOMAIN AsciiLow : AsciiLow[i] = c
         THEN 31 + CHOOSE i \in DOMAIN AsciiLow : AsciiLow[i] = c
    ELSE 96 + CHOOSE i \in DOMAIN AsciiHigh : AsciiHigh[i] = c

\* a < b on str values
RECURSIVE str_less(_, _)
str_less(a, b) ==
    IF b = <<>> THEN FALSE
    ELSE IF a = <<>> THEN TRUE
    ELSE IF Head(a) = Head(b) THEN str_less(Tail(a), Tail(b))
    ELSE ord(Head(a)) < ord(Head(b))

\* sorted(list, key=attrgetter(attribute)): stable, by insertion
RECURSIVE insert_sorted(_, _, _)
insert_sorted(sorted_list, x, attribute) ==
    IF sorted_list = <<>> THEN <<x>>
    ELSE IF str_less(x[attribute], Head(sorted_list)[attribute])
         THEN <<x>> \o sorted_list
    ELSE <<Head(sorted_list)>> \o insert_sorted(Tail(sorted_list), x, attribute)

RECURSIVE sorted_by(_, _)
sorted_by(list, attribute) ==
    IF list = <<>> THEN <<>>
    ELSE insert_sorted(sorted_by(SubSeq(list, 1, Len(list) - 1), attribute),
                       list[Len(list)], attribute)

\* itertools.groupby(list, attrgetter(attribute)): the runs of equal keys
RECURSIVE groupby(_, _)
groupby(list, attribute) ==
    IF list = <<>> THEN <<>>
    ELSE LET rest == groupby(Tail(list), attribute)
         IN  IF rest # <<>> /\ Head(rest)[1][attribute] = Head(list)[attribute]
             THEN <<<<Head(list)>> \o Head(rest)>> \o Tail(rest)
             ELSE <<<<Head(list)>>>> \o rest

\* GDScriptClasses._get_grouped_by
_get_grouped_by(self, attribute) ==
    IF self = <<>> \/ attribute \notin DOMAIN self[1] THEN <<>>
    ELSE groupby(sorted_by(self, attribute), attribute)

get_grouped_by_category(self) == _get_grouped_by(self, "category")

\* the dict comprehension of get_class_index: a later class of the same name
\* overwrites the entry of an earlier one
RECURSIVE class_index_from(_, _, _)
class_index_from(self, i, index) ==
    IF i > Len(self) THEN index
    ELSE class_index_from(self, i + 1, SetItem(index, self[i].name, get_symbols(self[i])))

get_class_index(self) == class_index_from(self, 1, <<>>)

\* utils.cached_property: the value is computed on the first access only
cached_property(cache, value) == IF cache = <<>> THEN <<value>> ELSE cache

\* has_name testing the truth of the name (entry.get("name")) instead of its presence
has_name_truthy(entry) == "name" \in DOMAIN entry /\ entry.name # <<>>

\* the filter of the comprehension in from_dict_list
has_name(entry) == "name" \in DOMAIN entry

\* GDScriptClasses.from_dict_list, from entry i on: the collection, and the raw
\* records as the call leaves them
RECURSIVE from_dict_list_loop(_, _, _)
from_dict_list_loop(d, i, objects) ==
    IF i > Len(d) THEN [objects |-> objects, data |-> d]
    ELSE IF has_name(d[i])
         THEN LET r == GDScriptClass_from_dict(d[i])
              IN  from_dict_list_loop([d EXCEPT ![i] = r.data], i + 1,
                                      Append(objects, r.object))
    ELSE from_dict_list_loop(d, i + 1, objects)

from_dict_list(d) == from_dict_list_loop(d, 1, <<>>)

-----------------------------------------------------------------------------
(* Specification of extract_metadata alone *)

MaxLines == 3

MetaLines ==
    { <<>>,
      <<" ", "h", "i", " ">>,
      <<"t", "a", "g", "s", ":", " ", "a", ",", " ", "v", "i", "r", "t", "u", "a", "l">>,
      <<" ", "T", "a", "g", "s", ":", "v", "i", "r", "t", "u", "a", "l", " ">>,
      <<"t", "a", "g", "s", ":", "x", ":", "y", ",">>,
      <<"c", "a", "t", "e", "g", "o", "r", "y", ":", " ", "I", "O">>,
      <<"a", " ", "t", "a", "g", "s", ":", " ", "b">> }

SeqsUpTo(S, n) == UNION {[1..k -> S] : k \in 0..n}

Descriptions == {join(<<NL>>, ls) : ls \in SeqsUpTo(MetaLines, MaxLines) \ {<<>>}}

InitMetadata ==
    /\ pc = "start"
    /\ description \in Descriptions
    /\ extracted = <<>>
    /\ input = <<>> /\ data = <<>> /\ classes = <<>>
    /\ groups = <<>> /\ class_index = <<>> /\ func = <<>>

ExtractMetadata ==
    /\ pc = "start"
    /\ extracted' = <<extract_metadata(description)>>
    /\ pc' = "done"
    /\ UNCHANGED <<input, data, classes, groups, class_index, description, func>>

NextMetadata == ExtractMetadata

SpecMetadata == InitMetadata /\ [][NextMetadata]_vars

-----------------------------------------------------------------------------
(* Specification of the construction of one Function *)

MaxChunks == 3

SignatureChunks ==
    { <<"f", "(", "x", ")">>, <<" ">>, ArrowNull, Null }

ReturnTypeChunks ==
    { Null, <<"i", "n", "t">>, <<" ">> }

RECURSIVE concat(_)
concat(parts) == IF parts = <<>> THEN <<>> ELSE Head(parts) \o concat(Tail(parts))

Signatures  == {concat(cs) : cs \in SeqsUpTo(SignatureChunks, MaxChunks)}
ReturnTypes == {concat(cs) : cs \in SeqsUpTo(ReturnTypeChunks, MaxChunks)}

FunctionData(signature, return_type, is_static, is_virtual) ==
    [name |-> <<"f">>, description |-> <<>>, arguments |-> <<>>,
     signature |-> signature, return_type |-> return_type,
     is_static |-> is_static, is_virtual |-> is_virtual]

InitFunction ==
    /\ pc = "start"
    /\ \E s \in Signatures, r \in ReturnTypes, st \in BOOLEAN, vi \in BOOLEAN :
           /\ input = FunctionData(s, r, st, vi)
           /\ data = input
    /\ func = <<>>
    /\ classes = <<>> /\ groups = <<>> /\ class_index = <<>>
    /\ description = <<>> /\ extracted = <<>>

FunctionFromDict ==
    /\ pc = "start"
    /\ func' = <<Function_from_dict(data)>>
    /\ pc' = "done"
    /\ UNCHANGED <<input, data, classes, groups, class_index, description, extracted>>

NextFunction == FunctionFromDict

SpecFunction == InitFunction /\ [][NextFunction]_vars

-----------------------------------------------------------------------------
(* Specification of the construction of a collection and of its views *)

MaxClasses == 3
MaxRecords == 2

Str_int == <<"i", "n", "t">>
Str_a   == <<"a">>

RawMethod(name, desc, arguments) ==
    [name |-> name, description |-> desc, arguments |-> arguments,
     return_type |-> Null, signature |-> name \o <<"(", ")", " ">> \o ArrowNull]

RawMember(name) ==
    [signature |-> <<"v", "a", "r", " ">> \o name, name |-> name, description |-> <<>>,
     data_type |-> Str_int, default_value |-> <<"0">>, export |-> FALSE,
     setter |-> <<>>, getter |-> <<>>]

RawSignal(name) ==
    [signature |-> name \o <<"(", ")">>, name |-> name, description |-> <<>>,
     arguments |-> <<>>]

RawConstant(name, data_type, value) ==
    [signature |-> <<"c", "o", "n", "s", "t", " ">> \o name, name |-> name,
     description |-> <<>>, data_type |-> data_type, value |-> value]

RawClass(name, path, desc, methods, static_functions, members, signals, constants) ==
    [name |-> name, extends_class |-> <<>>, description |-> desc, path |-> path,
     methods |-> methods, static_functions |-> static_functions, members |-> members,
     signals |-> signals, constants |-> constants]

\* a raw record without its `name` key
Nameless(record) == [k \in DOMAIN record \ {"name"} |-> record[k]]

TagsVirtual  == <<"t", "a", "g", "s", ":", " ", "v", "i", "r", "t", "u", "a", "l">>
DocVirtual   == <<"D", "o", "c", ".", "\n", " ", "T", "a", "g", "s", ":", " ", "a", " ", ",", " ", "v", "i", "r", "t", "u", "a", "l">>
CategoryMath == <<"c", "a", "t", "e", "g", "o", "r", "y", ":", " ", "M", "a", "t", "h">>
CategoryIO   == <<"D", "o", "c", ".", "\n", "C", "a", "t", "e", "g", "o", "r", "y", ":", " ", "I", "O", "\n">>

Args1 == <<[name |-> Str_a, type |-> Str_int]>>

Name_foo  == <<"f", "o", "o">>
Name_bar  == <<"b", "a", "r">>
Name_hook == <<"_", "h", "o", "o", "k">>
Name_ready == <<"_", "r", "e", "a", "d", "y">>

\* the raw method records a batch is drawn from
MethodPool ==
    {RawMethod(n, d, Args1) : n \in {Name_foo, Name_hook, Name_ready},
                              d \in {<<>>, TagsVirtual}}
    \cup {RawMethod(TYPE_CONSTRUCTOR, d, a) : d \in {<<>>, TagsVirtual}, a \in {<<>>, Args1}}
    \cup {SetItem(RawMethod(Name_bar, DocVirtual, <<>>), "rpc_mode", 1)}

\* one class with the two batches of method records m and s
FunctionClass(m, s) == RawClass(<<"F">>, <<"f">>, <<>>, m, s, <<>>, <<>>, <<>>)

EnumE == RawConstant(<<"E">>, Dictionary, [ONE |-> 1])
ConstK == RawConstant(<<"K">>, Str_int, 1)

\* the raw class records a collection is drawn from
ClassPool ==
    { RawClass(<<"A">>, <<"1">>, CategoryMath,
               <<RawMethod(<<"y">>, <<>>, <<>>)>>, <<>>,
               <<RawMember(<<"x">>)>>, <<>>, <<EnumE, ConstK>>),
      RawClass(<<"B">>, <<"2">>, CategoryMath,
               <<RawMethod(Name_ready, TagsVirtual, <<>>)>>,
               <<RawMethod(<<"s">>, <<>>, <<>>)>>,
               <<RawMember(<<"z">>), RawMember(<<"_", "p">>)>>, <<>>, <<>>),
      RawClass(<<"A">>, <<"3">>, CategoryIO,
               <<>>, <<>>, <<>>, <<RawSignal(<<"g">>)>>, <<>>),
      RawClass(<<"C">>, <<"4">>, CategoryIO,
               <<RawMethod(Name_hook, TagsVirtual, <<>>)>>, <<>>,
               <<RawMember(<<"x">>)>>, <<>>, <<>>),
      RawClass(<<>>, <<"5">>, <<>>, <<>>, <<>>, <<>>, <<>>, <<>>),
      Nameless(RawClass(<<>>, <<"6">>, CategoryMath,
                        <<RawMethod(<<"y">>, <<>>, <<>>)>>, <<>>, <<>>, <<>>, <<>>)) }

\* the input is a list of at most MaxClasses records of ClassPool, or one class
\* whose two batches hold at most MaxRecords records of MethodPool together
Init ==
    /\ pc = "start"
    /\ \/ \E k \in 0..MaxClasses : input \in [1..k -> ClassPool]
       \/ \E k \in 0..MaxRecords : \E j \in 0..(MaxRecords - k) :
              \E m \in [1..k -> MethodPool], s \in [1..j -> MethodPool] :
                  input = <<FunctionClass(m, s)>>
    /\ data = input
    /\ classes = <<>> /\ groups = <<>> /\ class_index = <<>>
    /\ description = <<>> /\ extracted = <<>> /\ func = <<>>

\* classes = GDScriptClasses.from_dict_list(data)
FromDictList ==
    /\ pc = "start"
    /\ LET r == from_dict_list(data)
       IN  /\ classes' = r.objects
           /\ data' = r.data
    /\ pc' = "built"
    /\ UNCHANGED <<input, groups, class_index, description, extracted, func>>

\* groups = classes.get_grouped_by_category()
GetGroupedByCategory ==
    /\ pc = "built"
    /\ groups' = <<get_grouped_by_category(classes)>>
    /\ UNCHANGED <<pc, input, data, classes, class_index, description, extracted, func>>

\* classes.get_class_index()
GetClassIndex ==
    /\ pc = "built"
    /\ class_index' = cached_property(class_index, get_class_index(classes))
    /\ UNCHANGED <<pc, input, data, classes, groups, description, extracted, func>>

Next == FromDictList \/ GetGroupedByCategory \/ GetClassIndex

Spec == Init /\ [][Next]_vars

-----------------------------------------------------------------------------
(* Properties of extract_metadata, under SpecMetadata *)

InputLines == split(description, <<NL>>)

\* a line that, trimmed and lower-cased, begins with the given directive prefix
BeginsWith(line, prefix) ==
    LET l == lower(strip(line))
    IN  Len(l) >= Len(prefix) /\ \A i \in 1..Len(prefix) : l[i] = prefix[i]

TagsLineIndexes == {i \in DOMAIN InputLines : BeginsWith(InputLines[i], TagsPrefix)}

LastTagsLine ==
    InputLines[CHOOSE i \in TagsLineIndexes : \A j \in TagsLineIndexes : j <= i]

\* the comma-split, trimmed segments after the first colon of a line
SegmentsAfterFirstColon(line) ==
    LET colon == CHOOSE i \in DOMAIN line :
                     line[i] = ":" /\ \A j \in 1..(i - 1) : line[j] # ":"
        segments == split(SubSeq(line, colon + 1, Len(line)), <<",">>)
    IN  [i \in DOMAIN segments |-> strip(segments[i])]

\* the elements of s at the indexes of I, in increasing order, from index k on
RECURSIVE Pick(_, _, _)
Pick(s, I, k) ==
    IF k > Len(s) THEN <<>>
    ELSE (IF k \in I THEN <<s[k]>> ELSE <<>>) \o Pick(s, I, k + 1)

\* the trimmed lines of the input at the indexes of I, joined by newlines
TrimmedLines(I) ==
    LET kept == Pick(InputLines, I, 1)
    IN  join(<<NL>>, [i \in DOMAIN kept |-> strip(kept[i])])

\* C7 as stated: with a `tags:` line in the description, the tags are those of
\* the last `tags:` line, no `tags:` line remains in the returned description,
\* and every other line of the input is kept, trimmed, in its original order.
C7_OtherLinesKept ==
    (extracted # <<>> /\ TagsLineIndexes # {}) =>
        /\ extracted[1][2].tags = SegmentsAfterFirstColon(LastTagsLine)
        /\ \A l \in {split(extracted[1][1], <<NL>>)[i] :
                        i \in DOMAIN split(extracted[1][1], <<NL>>)} :
               ~BeginsWith(l, TagsPrefix)
        /\ extracted[1][1] = TrimmedLines(DOMAIN InputLines \ TagsLineIndexes)

\* C7 as amended: with a `tags:` line in the description, the tags are those of
\* the last `tags:` line, no `tags:` line remains in the returned description,
\* and the returned description is made of the lines that are neither `tags:`
\* nor `category:` lines, trimmed, in their original order.
C7_TagsExtracted ==
    (extracted # <<>> /\ TagsLineIndexes # {}) =>
        /\ extracted[1][2].tags = SegmentsAfterFirstColon(LastTagsLine)
        /\ \A l \in {split(extracted[1][1], <<NL>>)[i] :
                        i \in DOMAIN split(extracted[1][1], <<NL>>)} :
               ~BeginsWith(l, TagsPrefix)
        /\ extracted[1][1] =
               TrimmedLines({i \in DOMAIN InputLines \ TagsLineIndexes :
                                ~BeginsWith(InputLines[i], CategoryPrefix)})

\* two `tags:` lines with different tags, one with a second colon, and a line
\* of prose that trimming changes
C7_Witness ==
    /\ extracted # <<>>
    /\ Cardinality(TagsLineIndexes) = 2
    /\ \E i \in TagsLineIndexes :
           /\ SegmentsAfterFirstColon(InputLines[i]) # SegmentsAfterFirstColon(LastTagsLine)
    /\ Cardinality({i \in DOMAIN LastTagsLine : LastTagsLine[i] = ":"}) = 2
    /\ \E i \in DOMAIN InputLines \ TagsLineIndexes :
           strip(InputLines[i]) # InputLines[i] /\ strip(InputLines[i]) # <<>>
    /\ extracted[1][1] # <<>>

-----------------------------------------------------------------------------
(* Properties of the construction of a Function, under SpecFunction *)

\* the 1-based positions at which old occurs in s
Occurrences(s, old) ==
    {k \in 1..(Len(s) - Len(old) + 1) : \A j \in 1..Len(old) : s[k + j - 1] = old[j]}

\* after is before with its first occurrence of old overwritten by new (of the
\* same length), and before itself when old does not occur in it
FirstRewritten(before, after, old, new) ==
    LET occ == Occurrences(before, old)
    IN  IF occ = {} THEN after = before
        ELSE \E k \in occ :
                /\ \A k2 \in occ : k <= k2
                /\ Len(after) = Len(before)
                /\ \A p \in 1..Len(before) :
                       after[p] = IF p \in k..(k + Len(old) - 1)
                                  THEN new[p - k + 1] ELSE before[p]

\* C6 as stated: neither the signature nor the return type of a constructed
\* Function contains `null`.
C6_NoNullLeft ==
    func # <<>> =>
        /\ Occurrences(func[1].signature, Null) = {}
        /\ Occurrences(func[1].return_type, Null) = {}

\* C6 as amended: the signature of a constructed Function is the input
\* signature with its first `-> null` rewritten to `-> void`, its return type
\* the input return type with its first `null` rewritten to `void`, every
\* other character kept; so neither contains `null` when the input return type
\* held at most one `null` and the input signature no `null` but that of at
\* most one `-> null`.
C6_FirstNullRewritten ==
    func # <<>> =>
        /\ FirstRewritten(input.signature, func[1].signature, ArrowNull, ArrowVoid)
        /\ FirstRewritten(input.return_type, func[1].return_type, Null, Void)
        /\ Cardinality(Occurrences(input.return_type, Null)) <= 1
               => Occurrences(func[1].return_type, Null) = {}
        /\ (/\ Cardinality(Occurrences(input.signature, Null)) <= 1
            /\ Cardinality(Occurrences(input.signature, Null))
                   = Cardinality(Occurrences(input.signature, ArrowNull)))
               => Occurrences(func[1].signature, Null) = {}

\* a signature with a `null` before its `-> null` and a return type with two
\* `null`: one `null` is left in each
C6_Witness ==
    /\ func # <<>>
    /\ Cardinality(Occurrences(input.signature, Null)) = 2
    /\ Cardinality(Occurrences(input.signature, ArrowNull)) = 1
    /\ Cardinality(Occurrences(func[1].signature, Null)) = 1
    /\ Cardinality(Occurrences(input.return_type, Null)) = 2
    /\ Cardinality(Occurrences(func[1].return_type, Null)) = 1

-----------------------------------------------------------------------------
(* Properties of the collection, under Spec *)

CarriesName(record) == "name" \in DOMAIN record

\* the raw records of the input that carry a name: the i-th one is the record
\* the i-th class of the collection is built from
NamedInput == SelectSeq(input, CarriesName)

\* the description of a raw record is tagged `virtual`
TaggedVirtual(record) == contains(extract_metadata(record.description)[2].tags, VirtualTag)

\* the name of a record or function is private and no built-in callback
PrivateName(name) ==
    /\ name # <<>>
    /\ name[1] = "_"
    /\ name \notin BUILTIN_VIRTUAL_CALLBACKS

\* the indexes of a list whose elements satisfy Test
Indexes(list, Test(_)) == {i \in DOMAIN list : Test(list[i])}

\* name and kind of the elements of a list of Functions at the indexes of I
NameKinds(functions, I) ==
    LET kept == Pick(functions, I, 1)
    IN  [i \in DOMAIN kept |-> <<kept[i].name, kept[i].kind>>]

\* C1 as stated, for the instance batch of a class without `_init` in its static
\* batch: a record named `_init` without arguments is excluded; one with
\* arguments is retained, as Virtual when it is tagged `virtual`, as Method
\* otherwise.
C1_ConstructorWithArgumentsRetained ==
    pc = "built" =>
        \A c \in DOMAIN classes :
            LET IsInit(e) == e.name = TYPE_CONSTRUCTOR
                WithArgs(e) == e.name = TYPE_CONSTRUCTOR /\ e.arguments # <<>>
                methods == Pick(NamedInput[c].methods,
                                Indexes(NamedInput[c].methods, WithArgs), 1)
            IN  Indexes(NamedInput[c].static_functions, IsInit) = {} =>
                    NameKinds(classes[c].functions, Indexes(classes[c].functions, IsInit))
                        = [i \in DOMAIN methods |->
                              <<TYPE_CONSTRUCTOR,
                                IF TaggedVirtual(methods[i]) THEN "VIRTUAL" ELSE "METHOD">>]

\* C2 as stated: of the records with a private name that is no built-in
\* callback, those without the `virtual` tag are excluded and those with it are
\* retained with kind Virtual, in either batch.
C2_TaggedPrivateRetained ==
    pc = "built" =>
        \A c \in DOMAIN classes :
            LET Private(e) == PrivateName(e.name)
                Tagged(e) == PrivateName(e.name) /\ TaggedVirtual(e)
                records == NamedInput[c].methods \o NamedInput[c].static_functions
                tagged == Pick(records, Indexes(records, Tagged), 1)
            IN  NameKinds(classes[c].functions, Indexes(classes[c].functions, Private))
                    = [i \in DOMAIN tagged |-> <<tagged[i].name, "VIRTUAL">>]

\* C2 as amended: of the records of the instance batch with a private name that
\* is no built-in callback, those without the `virtual` tag are excluded and
\* those with it are retained with kind Virtual, except `_init` without
\* arguments, which is excluded; in the static batch every such record is
\* excluded, tagged or not.
C2_TaggedPrivateInstanceRetained ==
    pc = "built" =>
        \A c \in DOMAIN classes :
            LET Private(e) == PrivateName(e.name)
                Kept(e) == /\ PrivateName(e.name)
                           /\ TaggedVirtual(e)
                           /\ ~(e.name = TYPE_CONSTRUCTOR /\ e.arguments = <<>>)
                tagged == Pick(NamedInput[c].methods,
                               Indexes(NamedInput[c].methods, Kept), 1)
            IN  NameKinds(classes[c].functions, Indexes(classes[c].functions, Private))
                    = [i \in DOMAIN tagged |-> <<tagged[i].name, "VIRTUAL">>]

\* an instance batch with an untagged private record followed by the same
\* record tagged `virtual`: one Virtual function is built
C2_Witness ==
    /\ pc = "built"
    /\ \E c \in DOMAIN classes :
           LET methods == NamedInput[c].methods
           IN  /\ Len(methods) = 2
               /\ PrivateName(methods[1].name)
               /\ methods[2].name = methods[1].name
               /\ ~TaggedVirtual(methods[1])
               /\ TaggedVirtual(methods[2])
               /\ Len(classes[c].functions) = 1
               /\ classes[c].functions[1].kind = "VIRTUAL"

\* C3: no function of a built class carries the name of a built-in callback,
\* whichever batch its record came from and whatever its tags.
C3_NoBuiltinCallback ==
    pc = "built" =>
        \A c \in DOMAIN classes : \A f \in DOMAIN classes[c].functions :
            classes[c].functions[f].name \notin BUILTIN_VIRTUAL_CALLBACKS

\* a class built from a built-in callback tagged `virtual` in its instance batch
\* and another in its static batch
C3_Witness ==
    /\ pc = "built"
    /\ \E c \in DOMAIN classes :
           /\ \E m \in DOMAIN NamedInput[c].methods :
                  /\ NamedInput[c].methods[m].name \in BUILTIN_VIRTUAL_CALLBACKS
                  /\ TaggedVirtual(NamedInput[c].methods[m])
           /\ \E m \in DOMAIN NamedInput[c].static_functions :
                  NamedInput[c].static_functions[m].name \in BUILTIN_VIRTUAL_CALLBACKS

\* the category of a built class
CategoryOf(c) == c.metadata.category

\* C4 as stated: get_grouped_by_category returns one group per distinct
\* category, each holding exactly the classes of that category in their input
\* order, and no group for an empty collection.
C4_OneGroupPerCategory ==
    groups # <<>> =>
        LET categories == {CategoryOf(classes[i]) : i \in DOMAIN classes}
            OfCategory(k) == Pick(classes, {i \in DOMAIN classes : CategoryOf(classes[i]) = k}, 1)
        IN  /\ Len(groups[1]) = Cardinality(categories)
            /\ {groups[1][g] : g \in DOMAIN groups[1]} = {OfCategory(k) : k \in categories}

\* the symbols of a built class: the names of its functions, members and signals
SymbolsOf(c) ==
    {c.functions[i].name : i \in DOMAIN c.functions}
        \cup {c.members[i].name : i \in DOMAIN c.members}
        \cup {c.signals[i].name : i \in DOMAIN c.signals}

\* C5 as stated: the class index maps the name of every class of the
\* collection to the names of that class's functions, members and signals, and
\* has no other key.
C5_IndexOfEveryClass ==
    class_index # <<>> =>
        /\ DOMAIN class_index[1] = {classes[i].name : i \in DOMAIN classes}
        /\ \A i \in DOMAIN classes : class_index[1][classes[i].name] = SymbolsOf(classes[i])

\* C5 as amended: the class index has the names of the classes as its keys and
\* maps each name to the names of the functions, members and signals of the
\* last class of the collection that carries this name.
C5_IndexOfLastClassOfName ==
    class_index # <<>> =>
        /\ DOMAIN class_index[1] = {classes[i].name : i \in DOMAIN classes}
        /\ \A i \in DOMAIN classes :
               (\A j \in DOMAIN classes : classes[j].name = classes[i].name => j <= i)
                   => class_index[1][classes[i].name] = SymbolsOf(classes[i])

\* an index built for three classes, two of one name and different symbols, one
\* with an enumeration, a private member and a function
C5_Witness ==
    /\ class_index # <<>>
    /\ Len(classes) = 3
    /\ classes[1].name = classes[3].name
    /\ SymbolsOf(classes[1]) # SymbolsOf(classes[3])
    /\ classes[1].enums # <<>>
    /\ classes[1].functions # <<>>
    /\ classes[2].name # classes[1].name
    /\ Len(classes[2].members) = 1 /\ Len(NamedInput[2].members) = 2
    /\ Cardinality(DOMAIN class_index[1]) = 2

\* C8: the collection holds one class per raw record that carries a name, in
\* the order of these records, so N - M classes for N records of which M lack
\* a name; a record without name is left as it was handed in.
C8_NamelessDropped ==
    pc = "built" =>
        /\ Len(classes) = Len(input) - Cardinality({i \in DOMAIN input : ~CarriesName(input[i])})
        /\ \A i \in DOMAIN classes :
               /\ classes[i].name = NamedInput[i].name
               /\ classes[i].path = NamedInput[i].path
        /\ \A i \in DOMAIN input : ~CarriesName(input[i]) => data[i] = input[i]

\* three records, the second without name, the third with an empty name
C8_Witness ==
    /\ pc = "built"
    /\ Len(input) = 3
    /\ CarriesName(input[1]) /\ ~CarriesName(input[2]) /\ CarriesName(input[3])
    /\ input[1].name # <<>> /\ input[3].name = <<>>
    /\ input[2].methods # <<>>
    /\ Len(classes) = 2

\* what a raw method record becomes when it is retained
Retained(record, is_static) ==
    <<record.name, record.arguments,
      IF is_static THEN "STATIC"
      ELSE IF TaggedVirtual(record) THEN "VIRTUAL"
      ELSE "METHOD">>

\* C9: the functions of a class are some records of its instance batch, in
\* input order, followed by some records of its static batch, in input order;
\* a function of the static batch is Static, one of the instance batch Virtual
\* when its description is tagged `virtual` and Method when it is not.
C9_KindAndOrder ==
    pc = "built" =>
        \A c \in DOMAIN classes :
            LET methods == NamedInput[c].methods
                statics == NamedInput[c].static_functions
                functions == classes[c].functions
            IN  \E I \in SUBSET DOMAIN methods, J \in SUBSET DOMAIN statics :
                    [f \in DOMAIN functions |->
                        <<functions[f].name, functions[f].arguments, functions[f].kind>>]
                    = [i \in 1..Cardinality(I) |-> Retained(Pick(methods, I, 1)[i], FALSE)]
                      \o [j \in 1..Cardinality(J) |-> Retained(Pick(statics, J, 1)[j], TRUE)]

\* a Virtual function of the instance batch followed by a Static function whose
\* description is tagged `virtual`
C9_Witness ==
    /\ pc = "built"
    /\ \E c \in DOMAIN classes :
           /\ Len(classes[c].functions) = 2
           /\ Len(NamedInput[c].methods) = 1
           /\ classes[c].functions[1].kind = "VIRTUAL"
           /\ classes[c].functions[2].kind = "STATIC"
           /\ contains(classes[c].functions[2].metadata.tags, VirtualTag)

\* C10 as stated: building the object model leaves every raw record with the
\* keys and values it was handed in with.
C10_InputUnchanged == pc = "built" => data = input

====
